---- MODULE Spec2Model ----
(***************************************************************************)
(* Hushgram: the user directory, presence queries and the cascading        *)
(* user-deletion workflow of convex/users.ts (src/unnamed/part_000).       *)
(*                                                                         *)
(* Every exported function is a Convex query or mutation.  A mutation runs *)
(* as one serializable transaction: an exception thrown by the handler     *)
(* rolls every write of that call back, and scheduler.runAfter enqueues    *)
(* its job only when the mutation commits.  db.delete(id) and db.patch(id) *)
(* throw when no document with that id exists.  Each handler is therefore  *)
(* one atomic action of the model.                                         *)
(***************************************************************************)
EXTENDS Integers, FiniteSets, TLC

\* ------------------------------------------------------------------ bounds

\* Number of user ids the store ever allocates (ids are never reused).
MaxUsers == 2
\* Largest number of _deleteUserAndData jobs pending at once.
MaxPending == 2
\* Largest number of message rows a drawn store holds (SpecStore).
MaxMsgs == 2
\* Largest memberCount a drawn group holds (SpecStore).
MaxCount == 2

\* ------------------------------------------------------- program constants

\* getOnlineUsers: const cutoffTime = Date.now() - 60000
OnlineWindowMs == 60000
\* cleanupOfflineUsers: const cutoffTime = Date.now() - 300000
IdleThresholdMs == 300000

\* ---------------------------------------------------------------- universes

UserIds == 1..MaxUsers
GroupIds == {"g1"}
ChatIds == {"c1"}
Usernames == {"ann", "bob"}
SessionIds == {"s1", "s2"}
\* The readings of Date.now() the model samples, in milliseconds.  They put a
\* lastSeen exactly 60000 and exactly 300000 ms in the past, 90000 ms in the
\* past (300000 read at 390000), and more than 300000 ms in the past.
Instants == {0, 60000, 300000, 390000}

NoUser == 0
NoName == ""

VARIABLES
    users,             \* table users: id -> [username, sessionId, isOnline, lastSeen]
    nextId,            \* the next fresh users id
    messages,          \* table messages: rows [senderId, recipientId, groupId]
    groupMembers,      \* table groupMembers: rows [userId, groupId]
    groups,            \* table groups: id -> memberCount
    activeChats,       \* table activeChats: rows [userId, chatId]
    typingIndicators,  \* table typingIndicators: rows [userId, chatId, isTyping]
    scheduled,         \* scheduler: user id -> number of pending _deleteUserAndData jobs
    now,               \* Date.now()
    last,              \* the last call: its handler, arguments and outcome
    overlap,           \* ids with jobs pending of which two were pending at once
    run,               \* the _deleteUserAndData invocation executing stage by stage
    ui                 \* the state of one mounted ChatArea component

vars == <<users, nextId, messages, groupMembers, groups, activeChats,
          typingIndicators, scheduled, now, last, overlap, run, ui>>

tables == <<users, nextId, messages, groupMembers, groups, activeChats,
            typingIndicators>>

Max(a, b) == IF a >= b THEN a ELSE b

Min(S) == CHOOSE x \in S : \A y \in S : x <= y

RECURSIVE Pending(_)
\* the number of jobs the function f of the scheduler holds
Pending(f) ==
    IF DOMAIN f = {} THEN 0
    ELSE LET u == CHOOSE x \in DOMAIN f : TRUE
         IN  f[u] + Pending([v \in DOMAIN f \ {u} |-> f[v]])

\* The record of a call: handler name, arguments, whether it returned (ok) or
\* threw, and what it returned.
\* flag is the isOnline argument of updateOnlineStatus and, for createUser,
\* whether a row was inserted; found is what _deleteUserAndData collected.
Call(op, userId, username, sessionId, flag, ok, retId, retUsers, found) ==
    [op |-> op, userId |-> userId, username |-> username, sessionId |-> sessionId,
     flag |-> flag, ok |-> ok, retId |-> retId, retUsers |-> retUsers,
     found |-> found]

NoneFound ==
    [messages |-> 0, groups |-> {}, floored |-> {}, activeChats |-> 0,
     typingIndicators |-> 0, lastSeen |-> -1]

NoCall == Call("none", NoUser, NoName, NoName, FALSE, TRUE, NoUser, {}, NoneFound)

\* no invocation is executing stage by stage
NoRun == [userId |-> NoUser, stage |-> "idle", interrupted |-> FALSE,
          snapshot |-> <<>>]

\* the chats a ChatArea can be given as selectedChat (NoName is null)
SelectableChats == {"c1", "c2"}

\* ChatArea as mounted: useState("") / useState(false) / useRef(null), the
\* cleanup effect set up by the first render, nothing sent yet
MountedUi ==
    [mounted |-> TRUE, selectedChat |-> NoName, message |-> NoName,
     isTyping |-> FALSE, typingTimeout |-> NoName,
     effect |-> [isTyping |-> FALSE, selectedChat |-> NoName],
     sending |-> [active |-> FALSE, isTyping |-> FALSE, selectedChat |-> NoName],
     sent |-> [c \in SelectableChats |-> "none"]]

\* ids the store has handed out so far (their rows may be gone again)
Allocated == 1..(nextId - 1)

\* ------------------------------------------------------- _deleteUserAndData

\* 1. messages sent by the user, private and group (index by_sender)
messagesToDelete(userId) == {m \in messages : m.senderId = userId}

\* faulty variant: the purge also takes the messages addressed to the user
MessagesAfterDelete_AnyParty(userId) ==
    {m \in messages : m.senderId # userId /\ m.recipientId # userId}

MessagesAfterDelete(userId) == messages \ messagesToDelete(userId)

\* 2. group memberships of the user (index by_user)
memberships(userId) == {m \in groupMembers : m.userId = userId}

\* faulty variant: the decrement without Math.max
DecrementedCount_NoFloor(memberCount) == memberCount - 1

\* Math.max(0, group.memberCount - 1)
DecrementedCount(memberCount) == Max(0, memberCount - 1)

\* faulty variant: the membership rows go, the counts are not patched
GroupsAfterDelete_Unpatched(userId) == groups

\* Every callback of the Promise.all reads its group before any of them
\* patches; a user has at most one membership row per group, so every group
\* found is patched once, from the count read.
GroupsAfterDelete(userId) ==
    [g \in DOMAIN groups |->
        IF \E m \in memberships(userId) : m.groupId = g
        THEN DecrementedCount(groups[g])
        ELSE groups[g]]

GroupMembersAfterDelete(userId) == groupMembers \ memberships(userId)

\* the groups whose decrement Math.max clamped
FlooredGroups(userId) ==
    {g \in DOMAIN groups :
        /\ \E m \in memberships(userId) : m.groupId = g
        /\ groups[g] - 1 < 0}

\* faulty variant: every active-chat row is deleted, whoever owns it
ActiveChatsAfterDelete_All(userId) == {}

\* 3. active chats (index by_user) and typing indicators (field filter)
ActiveChatsAfterDelete(userId) == {c \in activeChats : c.userId # userId}

\* faulty variant: the typing indicators are not deleted
TypingIndicatorsAfterDelete_Kept(userId) == typingIndicators

TypingIndicatorsAfterDelete(userId) == {t \in typingIndicators : t.userId # userId}

\* what the four collect() calls of one run returned, and the lastSeen of the
\* users row it deleted (a field the handler never reads)
Found(userId) ==
    [messages |-> Cardinality(messagesToDelete(userId)),
     groups |-> {m.groupId : m \in memberships(userId)},
     floored |-> FlooredGroups(userId),
     activeChats |-> Cardinality({c \in activeChats : c.userId = userId}),
     typingIndicators |-> Cardinality({t \in typingIndicators : t.userId = userId}),
     lastSeen |-> IF userId \in DOMAIN users THEN users[userId].lastSeen ELSE -1]

\* faulty variant: the users row is never deleted
UsersAfterDelete_Kept(userId) == users

\* 4. ctx.db.delete(userId) throws when the users row does not exist
UsersAfterDelete(userId) == [u \in DOMAIN users \ {userId} |-> users[u]]

\* faulty variant: the job gives up when the user is no longer idle
DeleteThrows_Recheck(userId) ==
    \/ userId \notin DOMAIN users
    \/ ~(users[userId].lastSeen < now - IdleThresholdMs)

DeleteThrows(userId) == userId \notin DOMAIN users

\* One scheduled _deleteUserAndData job runs.
deleteUserAndData(userId) ==
    /\ scheduled[userId] > 0
    /\ scheduled' = [scheduled EXCEPT ![userId] = @ - 1]
    /\ IF DeleteThrows(userId)
       THEN /\ UNCHANGED tables
            /\ last' = Call("_deleteUserAndData", userId, NoName, NoName, FALSE,
                            FALSE, NoUser, {}, NoneFound)
       ELSE /\ messages' = MessagesAfterDelete(userId)
            /\ groups' = GroupsAfterDelete(userId)
            /\ groupMembers' = GroupMembersAfterDelete(userId)
            /\ activeChats' = ActiveChatsAfterDelete(userId)
            /\ typingIndicators' = TypingIndicatorsAfterDelete(userId)
            /\ users' = UsersAfterDelete(userId)
            /\ UNCHANGED nextId
            /\ last' = Call("_deleteUserAndData", userId, NoName, NoName, FALSE,
                            TRUE, NoUser, {}, Found(userId))
    /\ overlap' = IF scheduled[userId] = 1 THEN overlap \ {userId} ELSE overlap
    /\ UNCHANGED <<now, run, ui>>

\* ---------------------------------------------------------------- scheduler

\* ctx.scheduler.runAfter(0, internal.users._deleteUserAndData, {userId}) for
\* every id in ids
Enqueue(ids) ==
    /\ Pending(scheduled) + Cardinality(ids) <= MaxPending
    /\ scheduled' = [u \in DOMAIN scheduled |->
                        IF u \in ids THEN scheduled[u] + 1 ELSE scheduled[u]]
    /\ overlap' = overlap \cup {u \in ids : scheduled[u] >= 1}

\* faulty variant: logout deletes the users row inline, before the job runs
logoutUser_Inline(userId) ==
    /\ Enqueue({userId})
    /\ users' = [u \in DOMAIN users \ {userId} |-> users[u]]
    /\ last' = Call("logoutUser", userId, NoName, NoName, FALSE, TRUE, NoUser, {}, NoneFound)
    /\ UNCHANGED <<nextId, messages, groupMembers, groups, activeChats,
                   typingIndicators, now, run, ui>>

logoutUser(userId) ==
    /\ Enqueue({userId})
    /\ last' = Call("logoutUser", userId, NoName, NoName, FALSE, TRUE, NoUser, {}, NoneFound)
    /\ UNCHANGED <<tables, now, run, ui>>

\* faulty variant: the sweep uses the 60-second display window
offlineUsers_OnlineWindow ==
    {u \in DOMAIN users : users[u].lastSeen < now - OnlineWindowMs}

\* users with lastSeen < Date.now() - 300000
offlineUsers == {u \in DOMAIN users : users[u].lastSeen < now - IdleThresholdMs}

\* faulty variant: the sweep marks the users it lists offline and seen now
cleanupOfflineUsers_Touching ==
    /\ Enqueue(offlineUsers)
    /\ users' = [u \in DOMAIN users |->
                    IF u \in offlineUsers
                    THEN [users[u] EXCEPT !.isOnline = FALSE, !.lastSeen = now]
                    ELSE users[u]]
    /\ last' = Call("cleanupOfflineUsers", NoUser, NoName, NoName, FALSE, TRUE,
                    NoUser, {}, NoneFound)
    /\ UNCHANGED <<nextId, messages, groupMembers, groups, activeChats,
                   typingIndicators, now, run, ui>>

cleanupOfflineUsers ==
    /\ Enqueue(offlineUsers)
    /\ last' = Call("cleanupOfflineUsers", NoUser, NoName, NoName, FALSE, TRUE,
                    NoUser, {}, NoneFound)
    /\ UNCHANGED <<tables, now, run, ui>>

\* --------------------------------------------------------------- createUser

\* faulty variant: the lookup without the isOnline filter
UsernameTaken_AnyUser(username) ==
    \E u \in DOMAIN users : users[u].username = username

\* faulty variant: no username check
UsernameTaken_Never(username) == FALSE

\* by_username index, filtered on isOnline = true, .first()
UsernameTaken(username) ==
    \E u \in DOMAIN users : users[u].username = username /\ users[u].isOnline

\* faulty variant: the session lookup finds nothing
existingSession_None(sessionId) == NoUser

\* by_session index, .first(): the oldest row of the session, or none
existingSession(sessionId) ==
    LET S == {u \in DOMAIN users : users[u].sessionId = sessionId}
    IN  IF S = {} THEN NoUser ELSE Min(S)

createUser(username, sessionId) ==
    /\ IF UsernameTaken(username)
       THEN /\ UNCHANGED tables
            /\ last' = Call("createUser", NoUser, username, sessionId, FALSE,
                            FALSE, NoUser, {}, NoneFound)
       ELSE IF existingSession(sessionId) # NoUser
       THEN /\ users' = [users EXCEPT ![existingSession(sessionId)] =
                            [@ EXCEPT !.username = username,
                                      !.isOnline = TRUE,
                                      !.lastSeen = now]]
            /\ UNCHANGED <<nextId, messages, groupMembers, groups, activeChats,
                           typingIndicators>>
            /\ last' = Call("createUser", NoUser, username, sessionId, FALSE,
                            TRUE, existingSession(sessionId), {}, NoneFound)
       ELSE /\ nextId <= MaxUsers
            /\ users' = [u \in DOMAIN users \cup {nextId} |->
                            IF u = nextId
                            THEN [username |-> username, sessionId |-> sessionId,
                                  isOnline |-> TRUE, lastSeen |-> now]
                            ELSE users[u]]
            /\ nextId' = nextId + 1
            /\ UNCHANGED <<messages, groupMembers, groups, activeChats,
                           typingIndicators>>
            /\ last' = Call("createUser", NoUser, username, sessionId, TRUE,
                            TRUE, nextId, {}, NoneFound)
    /\ UNCHANGED <<scheduled, now, overlap, run, ui>>

\* ----------------------------------------------------------- getOnlineUsers

\* faulty variant: the query without the lastSeen filter
onlineUsers_FlagOnly == {u \in DOMAIN users : users[u].isOnline}

\* by_online index on isOnline = true, filtered on lastSeen > Date.now() - 60000
onlineUsers ==
    {u \in DOMAIN users :
        users[u].isOnline /\ users[u].lastSeen > now - OnlineWindowMs}

getOnlineUsers ==
    /\ last' = Call("getOnlineUsers", NoUser, NoName, NoName, FALSE, TRUE, NoUser,
                    {[id |-> u, username |-> users[u].username,
                      isOnline |-> users[u].isOnline,
                      lastSeen |-> users[u].lastSeen] : u \in onlineUsers}, {})
    /\ UNCHANGED <<tables, scheduled, now, overlap, run, ui>>

\* ------------------------------------------------------- updateOnlineStatus

\* ctx.db.patch(userId, ...) throws when the users row does not exist
updateOnlineStatus(userId, isOnline) ==
    /\ IF userId \in DOMAIN users
       THEN /\ users' = [users EXCEPT ![userId] =
                            [@ EXCEPT !.isOnline = isOnline, !.lastSeen = now]]
            /\ last' = Call("updateOnlineStatus", userId, NoName, NoName, isOnline,
                            TRUE, NoUser, {}, NoneFound)
       ELSE /\ UNCHANGED users
            /\ last' = Call("updateOnlineStatus", userId, NoName, NoName, isOnline,
                            FALSE, NoUser, {}, NoneFound)
    /\ UNCHANGED <<nextId, messages, groupMembers, groups, activeChats,
                   typingIndicators, scheduled, now, overlap, run, ui>>

\* -------------------------------------------------------------------- clock

\* Time passes between calls: Date.now() reads a later instant.
Tick ==
    /\ \E t \in Instants : t > now /\ now' = t
    /\ last' = Call("tick", NoUser, NoName, NoName, FALSE, TRUE, NoUser, {}, NoneFound)
    /\ UNCHANGED <<tables, scheduled, overlap, run, ui>>

\* ------------------------------------------------------------ specification

Init ==
    /\ users = <<>>
    /\ nextId = 1
    /\ messages = {}
    /\ groupMembers = {}
    /\ groups = [g \in GroupIds |-> 0]
    /\ activeChats = {}
    /\ typingIndicators = {}
    /\ scheduled = [u \in UserIds |-> 0]
    /\ now = 0
    /\ last = NoCall
    /\ overlap = {}
    /\ run = NoRun
    /\ ui = MountedUi

Next ==
    \/ \E n \in Usernames, s \in SessionIds : createUser(n, s)
    \/ \E u \in Allocated, b \in BOOLEAN : updateOnlineStatus(u, b)
    \/ \E u \in Allocated : logoutUser(u)
    \/ cleanupOfflineUsers
    \/ getOnlineUsers
    \/ \E u \in UserIds : deleteUserAndData(u)
    \/ Tick

Spec == Init /\ [][Next]_vars

\* ------------------------------------------------- a stored database, drawn

\* _deleteUserAndData is a function of the stored tables and a user id.
\* SpecStore starts it from every small database in which each owned row
\* belongs to a live user, a user has at most one membership row per group
\* and at most one typing row per chat, a group's stored memberCount is any
\* number from 0 to MaxCount (it is a cache nothing recomputes), and any of
\* the ids ever allocated has a job pending.  The rows of the other tables
\* are written by functions outside users.ts.

StoredUser(S, u) ==
    IF u = Min(S)
    THEN [username |-> "ann", sessionId |-> "s1", isOnline |-> TRUE, lastSeen |-> 0]
    ELSE [username |-> "bob", sessionId |-> "s2", isOnline |-> TRUE, lastSeen |-> 0]

\* exactly one of recipientId / groupId is set
MessageRows(S) ==
    {[senderId |-> u, recipientId |-> r, groupId |-> ""] :
        u \in S, r \in UserIds} \cup
    {[senderId |-> u, recipientId |-> NoUser, groupId |-> g] :
        u \in S, g \in GroupIds}

TypingRows(S) == [userId : S, chatId : ChatIds, isTyping : BOOLEAN]

InitStore ==
    /\ \E S \in SUBSET UserIds :
        /\ S # {}
        /\ Cardinality(S) <= Cardinality(SessionIds)
        /\ users = [u \in S |-> StoredUser(S, u)]
        /\ messages \in {M \in SUBSET MessageRows(S) :
                            /\ Cardinality(M) <= MaxMsgs
                            /\ \A m \in M : m.recipientId # m.senderId}
        /\ groupMembers \in SUBSET [userId : S, groupId : GroupIds]
        /\ activeChats \in SUBSET [userId : S, chatId : ChatIds]
        /\ typingIndicators \in
              {T \in SUBSET TypingRows(S) :
                  \A t1, t2 \in T :
                      (t1.userId = t2.userId /\ t1.chatId = t2.chatId) => t1 = t2}
    /\ nextId = MaxUsers + 1
    /\ groups \in [GroupIds -> 0..MaxCount]
    /\ scheduled \in [UserIds -> {0, 1}]
    /\ now = 0
    /\ last = NoCall
    /\ overlap = {}
    /\ run = NoRun
    /\ ui = MountedUi

NextStore == \E u \in UserIds : deleteUserAndData(u)

SpecStore == InitStore /\ [][NextStore]_vars

\* ------------------------------------------- presence, logout and the sweep

\* SpecLife starts from a store in which one or two users are live, each
\* owning a group message, a membership of g1, an active-chat marker and a
\* typing indicator, and g1 counts its members.  Users heartbeat, log out and
\* go idle; the sweep and the scheduled jobs run.
InitLife ==
    /\ \E S \in SUBSET UserIds :
        /\ S # {}
        /\ Cardinality(S) <= Cardinality(SessionIds)
        /\ users = [u \in S |-> StoredUser(S, u)]
        /\ messages = {[senderId |-> u, recipientId |-> NoUser, groupId |-> "g1"] :
                          u \in S}
        /\ groupMembers = [userId : S, groupId : {"g1"}]
        /\ groups = [g \in GroupIds |-> IF g = "g1" THEN Cardinality(S) ELSE 0]
        /\ activeChats = [userId : S, chatId : {"c1"}]
        /\ typingIndicators = [userId : S, chatId : {"c1"}, isTyping : {FALSE}]
    /\ nextId = MaxUsers + 1
    /\ scheduled = [u \in UserIds |-> 0]
    /\ now = 0
    /\ last = NoCall
    /\ overlap = {}
    /\ run = NoRun
    /\ ui = MountedUi

\* the client of a live user logs out; heartbeats may come from any client
NextLife ==
    \/ \E u \in Allocated, b \in BOOLEAN : updateOnlineStatus(u, b)
    \/ \E u \in DOMAIN users : logoutUser(u)
    \/ cleanupOfflineUsers
    \/ \E u \in UserIds : deleteUserAndData(u)
    \/ Tick

\* The scheduler runs every job enqueued with runAfter(0, ...), and the
\* sweep is invoked again and again on its fixed interval.
FairLife ==
    /\ \A u \in UserIds : WF_vars(deleteUserAndData(u))
    /\ SF_vars(cleanupOfflineUsers)

SpecLife == InitLife /\ [][NextLife]_vars /\ FairLife

\* the same without logout: every job is one the sweep enqueued
NextIdle ==
    \/ \E u \in Allocated, b \in BOOLEAN : updateOnlineStatus(u, b)
    \/ cleanupOfflineUsers
    \/ \E u \in UserIds : deleteUserAndData(u)
    \/ Tick

SpecIdle == InitLife /\ [][NextIdle]_vars

\* ------------------------------------- one invocation, statement by statement

\* SpecRun executes the handler of _deleteUserAndData one stage at a time.
\* The mutation is one transaction: between its begin and its commit the
\* tables below are the transaction's own view, no other function runs
\* against them, and nothing is visible outside until the commit.  When the
\* handler throws, or the invocation is interrupted before its commit, the
\* view is discarded and the store is what it was at the begin; an
\* interrupted job stays scheduled and is run again.

\* the view the transaction started from
Snapshot ==
    [users |-> users, messages |-> messages, groupMembers |-> groupMembers,
     groups |-> groups, activeChats |-> activeChats,
     typingIndicators |-> typingIndicators]

\* faulty variant: the writes made before the interruption or the throw stay
RolledBack_Kept == UNCHANGED tables

\* the view is discarded
RolledBack ==
    /\ users' = run.snapshot.users
    /\ messages' = run.snapshot.messages
    /\ groupMembers' = run.snapshot.groupMembers
    /\ groups' = run.snapshot.groups
    /\ activeChats' = run.snapshot.activeChats
    /\ typingIndicators' = run.snapshot.typingIndicators
    /\ UNCHANGED nextId

Stages == {"messages", "memberships", "activeChats", "typingIndicators", "user"}

\* faulty variant: the users row is deleted right after the messages
NextStage_UserEarly(stage) ==
    CASE stage = "messages" -> "user"
      [] stage = "user" -> "memberships"
      [] stage = "memberships" -> "activeChats"
      [] stage = "activeChats" -> "typingIndicators"
      [] stage = "typingIndicators" -> "done"

\* the statements of the handler in program order: 1. messages,
\* 2. memberships and counts, 3. active chats, typing indicators, 4. the user
NextStage(stage) ==
    CASE stage = "messages" -> "memberships"
      [] stage = "memberships" -> "activeChats"
      [] stage = "activeChats" -> "typingIndicators"
      [] stage = "typingIndicators" -> "user"
      [] stage = "user" -> "done"

\* the scheduler starts a pending job; a job that was interrupted is the one
\* started next
BeginRun(userId) ==
    /\ run.stage = "idle"
    /\ scheduled[userId] > 0
    /\ run.interrupted => userId = run.userId
    /\ run' = [userId |-> userId, stage |-> "messages",
               interrupted |-> run.interrupted, snapshot |-> Snapshot]
    /\ UNCHANGED <<tables, scheduled, now, last, overlap, ui>>

StageMessages ==
    /\ run.stage = "messages"
    /\ messages' = MessagesAfterDelete(run.userId)
    /\ run' = [run EXCEPT !.stage = NextStage("messages")]
    /\ UNCHANGED <<users, nextId, groupMembers, groups, activeChats,
                   typingIndicators, scheduled, now, last, overlap, ui>>

StageMemberships ==
    /\ run.stage = "memberships"
    /\ groups' = GroupsAfterDelete(run.userId)
    /\ groupMembers' = GroupMembersAfterDelete(run.userId)
    /\ run' = [run EXCEPT !.stage = NextStage("memberships")]
    /\ UNCHANGED <<users, nextId, messages, activeChats, typingIndicators,
                   scheduled, now, last, overlap, ui>>

StageActiveChats ==
    /\ run.stage = "activeChats"
    /\ activeChats' = ActiveChatsAfterDelete(run.userId)
    /\ run' = [run EXCEPT !.stage = NextStage("activeChats")]
    /\ UNCHANGED <<users, nextId, messages, groupMembers, groups,
                   typingIndicators, scheduled, now, last, overlap, ui>>

StageTypingIndicators ==
    /\ run.stage = "typingIndicators"
    /\ typingIndicators' = TypingIndicatorsAfterDelete(run.userId)
    /\ run' = [run EXCEPT !.stage = NextStage("typingIndicators")]
    /\ UNCHANGED <<users, nextId, messages, groupMembers, groups, activeChats,
                   scheduled, now, last, overlap, ui>>

\* ctx.db.delete(userId): it throws when the row is absent, the transaction
\* is rolled back and the job has failed
StageUser ==
    /\ run.stage = "user"
    /\ IF DeleteThrows(run.userId)
       THEN /\ RolledBack
            /\ scheduled' = [scheduled EXCEPT ![run.userId] = @ - 1]
            /\ last' = Call("_deleteUserAndData", run.userId, NoName, NoName,
                            FALSE, FALSE, NoUser, {}, NoneFound)
            /\ run' = NoRun
       ELSE /\ users' = UsersAfterDelete(run.userId)
            /\ run' = [run EXCEPT !.stage = NextStage("user")]
            /\ UNCHANGED <<nextId, messages, groupMembers, groups, activeChats,
                           typingIndicators, scheduled, last>>
    /\ UNCHANGED <<now, overlap, ui>>

\* the handler has returned: the view is committed and the job is done
CommitRun ==
    /\ run.stage = "done"
    /\ scheduled' = [scheduled EXCEPT ![run.userId] = @ - 1]
    /\ last' = Call("_deleteUserAndData", run.userId, NoName, NoName, FALSE,
                    TRUE, NoUser, {}, NoneFound)
    /\ run' = NoRun
    /\ UNCHANGED <<tables, now, overlap, ui>>

\* The invocation is interrupted before its commit, once per job, after any
\* number of its stages: none of its writes is kept, the job stays scheduled.
InterruptRun ==
    /\ run.stage \in Stages
    /\ ~run.interrupted
    /\ RolledBack
    /\ run' = [run EXCEPT !.stage = "idle", !.interrupted = TRUE]
    /\ UNCHANGED <<scheduled, now, last, overlap, ui>>

\* a drawn store with one job pending
InitRun == InitStore /\ Pending(scheduled) = 1

NextRun ==
    \/ \E u \in UserIds : BeginRun(u)
    \/ StageMessages
    \/ StageMemberships
    \/ StageActiveChats
    \/ StageTypingIndicators
    \/ StageUser
    \/ CommitRun
    \/ InterruptRun

SpecRun == InitRun /\ [][NextRun]_vars

\* ----------------------------------------------------------------- ChatArea

\* SpecChat is one mounted ChatArea and the typing-indicator updates it
\* sends.  ui.sent[c] is the last update sent for chat c.  A handler or an
\* effect uses the isTyping and selectedChat of the render that created it:
\* the cleanup effect is created when selectedChat?.id changes, and
\* handleSendMessage continues after its await with the values it started
\* with.

Texts == {NoName, "hi"}

\* updateTypingIndicator({userId, chatId, isTyping})
updateTypingIndicator(sent, chatId, isTyping) ==
    [sent EXCEPT ![chatId] = IF isTyping THEN "typing" ELSE "stopped"]

\* the input is rendered when a chat is selected
setMessage(text) ==
    /\ ui.mounted /\ ui.selectedChat # NoName
    /\ ui' = [ui EXCEPT !.message = text]
    /\ UNCHANGED <<tables, scheduled, now, last, overlap, run>>

\* a keystroke: the first one announces typing, every one restarts the
\* 2000 ms timeout, which is for the chat selected now
handleTyping ==
    /\ ui.mounted /\ ui.selectedChat # NoName
    /\ ui' = [ui EXCEPT
                !.isTyping = TRUE,
                !.sent = IF ~ui.isTyping
                         THEN updateTypingIndicator(ui.sent, ui.selectedChat, TRUE)
                         ELSE ui.sent,
                !.typingTimeout = ui.selectedChat]
    /\ UNCHANGED <<tables, scheduled, now, last, overlap, run>>

\* 2000 ms have passed without a keystroke
TypingTimeout ==
    /\ ui.typingTimeout # NoName
    /\ ui' = [ui EXCEPT
                !.isTyping = FALSE,
                !.sent = updateTypingIndicator(ui.sent, ui.typingTimeout, FALSE),
                !.typingTimeout = NoName]
    /\ UNCHANGED <<tables, scheduled, now, last, overlap, run>>

\* handleSendMessage up to its await
handleSendMessage ==
    /\ ui.mounted /\ ui.selectedChat # NoName
    /\ ui.message # NoName
    /\ ~ui.sending.active
    /\ ui' = [ui EXCEPT !.sending = [active |-> TRUE, isTyping |-> ui.isTyping,
                                     selectedChat |-> ui.selectedChat]]
    /\ UNCHANGED <<tables, scheduled, now, last, overlap, run>>

\* sendMessage resolved: the rest of the try block
SendResolved ==
    /\ ui.sending.active
    /\ ui' = [ui EXCEPT
                !.message = NoName,
                !.isTyping = IF ui.sending.isTyping THEN FALSE ELSE ui.isTyping,
                !.sent = IF ui.sending.isTyping
                         THEN updateTypingIndicator(ui.sent, ui.sending.selectedChat, FALSE)
                         ELSE ui.sent,
                !.sending = [active |-> FALSE, isTyping |-> FALSE,
                             selectedChat |-> NoName]]
    /\ UNCHANGED <<tables, scheduled, now, last, overlap, run>>

\* sendMessage rejected: the catch block logs
SendRejected ==
    /\ ui.sending.active
    /\ ui' = [ui EXCEPT !.sending = [active |-> FALSE, isTyping |-> FALSE,
                                     selectedChat |-> NoName]]
    /\ UNCHANGED <<tables, scheduled, now, last, overlap, run>>

\* the cleanup of the effect: what has been sent once it ran (the timeout it
\* clears is reset by the caller)
CleanedUp ==
    IF ui.effect.isTyping /\ ui.effect.selectedChat # NoName
    THEN updateTypingIndicator(ui.sent, ui.effect.selectedChat, FALSE)
    ELSE ui.sent

\* the parent selects another chat, or none: selectedChat?.id changes, the
\* cleanup of the old effect runs and the effect is created anew
SelectChat(chat) ==
    /\ ui.mounted /\ chat # ui.selectedChat
    /\ ui' = [ui EXCEPT
                !.selectedChat = chat,
                !.typingTimeout = NoName,
                !.sent = CleanedUp,
                !.effect = [isTyping |-> ui.isTyping, selectedChat |-> chat]]
    /\ UNCHANGED <<tables, scheduled, now, last, overlap, run>>

Unmount ==
    /\ ui.mounted
    /\ ui' = [ui EXCEPT
                !.mounted = FALSE,
                !.typingTimeout = NoName,
                !.sent = CleanedUp]
    /\ UNCHANGED <<tables, scheduled, now, last, overlap, run>>

NextChat ==
    \/ \E text \in Texts : setMessage(text)
    \/ handleTyping
    \/ TypingTimeout
    \/ handleSendMessage
    \/ SendResolved
    \/ SendRejected
    \/ \E chat \in SelectableChats \cup {NoName} : SelectChat(chat)
    \/ Unmount

\* a timeout that is set fires, and a sendMessage call settles
FairChat ==
    /\ WF_vars(TypingTimeout)
    /\ WF_vars(SendResolved \/ SendRejected)

SpecChat == Init /\ [][NextChat]_vars /\ FairChat

\* ------------------------------------------------------------------- claims

\* the step just taken ran _deleteUserAndData(u) to completion
Deleted(u) ==
    last'.op = "_deleteUserAndData" /\ last'.userId = u /\ last'.ok

\* memberCount is the number of membership rows of the group
CountsAccurate ==
    \A g \in DOMAIN groups :
        groups[g] = Cardinality({m \in groupMembers : m.groupId = g})

\* C1: when every group's memberCount equals its number of membership rows,
\* a completed _deleteUserAndData(U) leaves no membership row of U and every
\* memberCount again equal to the number of rows of its group.
C1_NoOrphanedMemberships ==
    [][\A u \in UserIds :
          (Deleted(u) /\ CountsAccurate) =>
              /\ \A m \in groupMembers' : m.userId # u
              /\ CountsAccurate']_vars

\* a completed run that found memberships, none of them floored, and left
\* accurate counts with a member remaining
C1_Witness ==
    /\ last.op = "_deleteUserAndData" /\ last.ok
    /\ last.found.groups # {} /\ last.found.floored = {}
    /\ CountsAccurate
    /\ \E g \in last.found.groups : groups[g] >= 1

\* C2: a _deleteUserAndData(U) run in succession to an earlier one, against
\* a user whose row that run has already deleted, raises no error and
\* changes nothing.
C2_Idempotent ==
    [][\A u \in Allocated \ overlap :
          (last'.op = "_deleteUserAndData" /\ last'.userId = u
              /\ u \notin DOMAIN users) =>
              (last'.ok /\ tables' = tables)]_vars

\* C3: of two _deleteUserAndData jobs for the same user that were pending at
\* once, neither fails, and the one that finds the user gone changes nothing.
C3_ConcurrentSafe ==
    [][\A u \in overlap :
          (last'.op = "_deleteUserAndData" /\ last'.userId = u) =>
              /\ last'.ok
              /\ (u \notin DOMAIN users => tables' = tables)]_vars

\* C4: a completed _deleteUserAndData(U) leaves no message sent by U and
\* keeps every message sent to U by another user; a message disappears only
\* in a completed _deleteUserAndData of its sender.
C4_SenderOnlyPurge ==
    [][/\ \A u \in UserIds :
            Deleted(u) =>
                /\ \A m \in messages' : m.senderId # u
                /\ \A m \in messages :
                      (m.recipientId = u /\ m.senderId # u) => m \in messages'
       /\ \A m \in messages \ messages' : Deleted(m.senderId)]_vars

\* a completed run that deleted messages of U and left one addressed to U
C4_Witness ==
    /\ last.op = "_deleteUserAndData" /\ last.ok
    /\ last.found.messages >= 1
    /\ \E m \in messages : m.recipientId = last.userId

\* the rows of every table that user id u owns
OwnedRows(u) ==
    {m \in messages : m.senderId = u}
        \cup {m \in groupMembers : m.userId = u}
        \cup {c \in activeChats : c.userId = u}
        \cup {t \in typingIndicators : t.userId = u}

\* C5: after a completed _deleteUserAndData(U) no message, membership,
\* active-chat or typing-indicator row of U remains and the users row of U
\* is gone.
C5_NoOwnedRowRemains ==
    (last.op = "_deleteUserAndData" /\ last.ok) =>
        (OwnedRows(last.userId) = {} /\ last.userId \notin DOMAIN users)

\* a completed run that found a row of U in each of the four tables
C5_Witness ==
    /\ last.op = "_deleteUserAndData" /\ last.ok
    /\ last.found.messages >= 1 /\ last.found.groups # {}
    /\ last.found.activeChats >= 1 /\ last.found.typingIndicators >= 1

\* C6: no memberCount is ever negative, and a _deleteUserAndData(U) of a
\* live user with a membership in a group whose memberCount is 0 completes
\* and leaves that memberCount 0.
C6_CountFloor ==
    /\ [](\A g \in DOMAIN groups : groups[g] >= 0)
    /\ [][\A u \in DOMAIN users :
             (last'.op = "_deleteUserAndData" /\ last'.userId = u) =>
                 /\ last'.ok
                 /\ \A m \in groupMembers :
                       (m.userId = u /\ groups[m.groupId] = 0) =>
                           groups'[m.groupId] = 0]_vars

\* a completed run whose decrement of a memberCount of 0 was floored
C6_Witness ==
    /\ last.op = "_deleteUserAndData" /\ last.ok
    /\ \E g \in last.found.floored : groups[g] = 0

\* C7: createUser for a session that has no user throws when an online user
\* holds the username, and otherwise inserts a new online row and returns
\* its id.
C7_OnlineUniqueness ==
    [][(/\ last'.op = "createUser"
        /\ \A u \in DOMAIN users : users[u].sessionId # last'.sessionId) =>
          IF \E u \in DOMAIN users :
                users[u].username = last'.username /\ users[u].isOnline
          THEN ~last'.ok /\ tables' = tables
          ELSE /\ last'.ok
               /\ last'.retId \notin DOMAIN users
               /\ DOMAIN users' = DOMAIN users \cup {last'.retId}
               /\ users'[last'.retId] =
                     [username |-> last'.username, sessionId |-> last'.sessionId,
                      isOnline |-> TRUE, lastSeen |-> now]
               /\ \A u \in DOMAIN users : users'[u] = users[u]]_vars

\* a createUser that inserted a row although an offline user holds the name
C7_Witness ==
    /\ last.op = "createUser" /\ last.ok /\ last.flag
    /\ \E u \in DOMAIN users :
          /\ u # last.retId
          /\ users[u].username = last.username
          /\ ~users[u].isOnline

\* C8: createUser with a sessionId that has a user row is never rejected:
\* it sets that row's username, isOnline = true and lastSeen, inserts no row
\* and returns the row's id.
C8_IdempotentResume ==
    [][\A u \in DOMAIN users :
          (last'.op = "createUser" /\ users[u].sessionId = last'.sessionId) =>
              /\ last'.ok
              /\ last'.retId = u
              /\ DOMAIN users' = DOMAIN users
              /\ users' = [users EXCEPT ![u] =
                              [username |-> last'.username,
                               sessionId |-> users[u].sessionId,
                               isOnline |-> TRUE, lastSeen |-> now]]]_vars

\* C9: getOnlineUsers returns exactly the users with isOnline = true whose
\* lastSeen is less than 60000 ms before the query time.
C9_OnlineWindow ==
    last.op = "getOnlineUsers" =>
        last.retUsers =
            {[id |-> u, username |-> users[u].username,
              isOnline |-> users[u].isOnline, lastSeen |-> users[u].lastSeen] :
                u \in {v \in DOMAIN users :
                          users[v].isOnline /\ now - users[v].lastSeen < 60000}}

\* a query that returned a user and left out one whose stored flag is still
\* true and whose lastSeen is 90 seconds old
C9_Witness ==
    /\ last.op = "getOnlineUsers"
    /\ last.retUsers # {}
    /\ \E u \in DOMAIN users :
          /\ users[u].isOnline
          /\ now - users[u].lastSeen = 90000
          /\ \A r \in last.retUsers : r.id # u

\* C10: cleanupOfflineUsers enqueues one _deleteUserAndData job for every
\* user whose lastSeen is more than 300000 ms before the sweep time and none
\* for any other id.
C10_IdleSweep ==
    [][last'.op = "cleanupOfflineUsers" =>
          \A u \in UserIds :
              scheduled'[u] =
                  IF u \in DOMAIN users /\ now - users[u].lastSeen > 300000
                  THEN scheduled[u] + 1
                  ELSE scheduled[u]]_vars

\* a sweep that enqueued a job for an idle user and none for a user whose
\* lastSeen is 90 seconds old
C10_Witness ==
    /\ last.op = "cleanupOfflineUsers"
    /\ \E u, v \in DOMAIN users :
          /\ now - users[u].lastSeen > 300000 /\ scheduled[u] = 1
          /\ now - users[v].lastSeen = 90000 /\ scheduled[v] = 0

\* the users row of u and every row u owns are gone
Purged(u) == u \notin DOMAIN users /\ OwnedRows(u) = {}

\* lastSeen of the live user u is more than five minutes old
Idle(u) == now - users[u].lastSeen > 300000

\* C11: when the scheduled jobs and the periodic sweep keep running, a live
\* user who logs out is eventually removed with every row they own, and a
\* user who is idle is eventually removed with every row they own unless
\* their lastSeen is refreshed.
C11_EventualPurge ==
    \A u \in UserIds :
        /\ (last.op = "logoutUser" /\ last.userId = u /\ u \in DOMAIN users)
              ~> Purged(u)
        /\ (u \in DOMAIN users /\ Idle(u))
              ~> (Purged(u) \/ (u \in DOMAIN users /\ ~Idle(u)))

\* a run, more than five minutes after the start, that removed the last
\* live user together with a row of each table
C11_Witness ==
    /\ last.op = "_deleteUserAndData" /\ last.ok
    /\ last.found.messages >= 1 /\ last.found.groups # {}
    /\ last.found.activeChats >= 1 /\ last.found.typingIndicators >= 1
    /\ now - last.found.lastSeen > 300000
    /\ Purged(last.userId)
    /\ DOMAIN users = {}

\* C12: logoutUser changes no row of any table; it adds one pending
\* _deleteUserAndData job for its userId and nothing else, and a users row or
\* an owned row disappears only in a later _deleteUserAndData step.
C12_LogoutFireAndForget ==
    [][/\ last'.op = "logoutUser" =>
            /\ tables' = tables
            /\ scheduled' = [scheduled EXCEPT ![last'.userId] = @ + 1]
       /\ \A u \in UserIds :
            (\/ (u \in DOMAIN users /\ u \notin DOMAIN users')
             \/ OwnedRows(u) \ OwnedRows(u)' # {}) =>
                (last'.op = "_deleteUserAndData" /\ last'.userId = u)]_vars

\* a logout of a live user who owns rows: the job is pending, nothing is gone
C12_Witness ==
    /\ last.op = "logoutUser"
    /\ last.userId \in DOMAIN users
    /\ Cardinality(OwnedRows(last.userId)) >= 4
    /\ scheduled[last.userId] = 1

\* C13 as stated: cleanupOfflineUsers changes no users row, and a user a
\* sweep has just found idle is still idle after the next step unless that
\* step removed its users row.
C13_IdleUntilRemoved ==
    [][/\ last'.op = "cleanupOfflineUsers" => users' = users
       /\ \A u \in DOMAIN users :
            (last.op = "cleanupOfflineUsers" /\ Idle(u) /\ u \in DOMAIN users')
                => Idle(u)']_vars

\* C13: cleanupOfflineUsers changes no users row, and a live idle user stops
\* being idle only by a heartbeat, a createUser resume or its deletion, never
\* by a sweep or by time passing.
C13_SweepLeavesUsers ==
    [][/\ last'.op = "cleanupOfflineUsers" => users' = users
       /\ \A u \in DOMAIN users :
            (Idle(u) /\ (u \notin DOMAIN users' \/ ~Idle(u)')) =>
                last'.op \in {"updateOnlineStatus", "createUser", "_deleteUserAndData"}]_vars

\* a second sweep found the same idle user again: two jobs are pending
C13_Witness ==
    /\ last.op = "cleanupOfflineUsers"
    /\ \E u \in DOMAIN users : Idle(u) /\ scheduled[u] = 2

\* C14: while an invocation of _deleteUserAndData(U) executes, the stages act
\* in the order messages, memberships and counts, active chats, typing
\* indicators, users row: as long as rows of an earlier stage remain, no later
\* stage has written; and as long as any row owned by U remains, the users
\* row of U exists.
C14_UserRowLast ==
    run.stage # "idle" =>
        LET u == run.userId
            s == run.snapshot
            typingKept == typingIndicators = s.typingIndicators
            chatsKept == activeChats = s.activeChats
            membersKept == groupMembers = s.groupMembers /\ groups = s.groups
            userKept == users = s.users
        IN  /\ OwnedRows(u) # {} => u \in DOMAIN users
            /\ (\E m \in messages : m.senderId = u) =>
                   (membersKept /\ chatsKept /\ typingKept /\ userKept)
            /\ (\E m \in groupMembers : m.userId = u) =>
                   (chatsKept /\ typingKept /\ userKept)
            /\ (\E c \in activeChats : c.userId = u) => (typingKept /\ userKept)
            /\ (\E t \in typingIndicators : t.userId = u) => userKept

\* an invocation that has deleted messages, memberships and active chats of U
\* and still sees typing indicators of U and the users row
C14_Witness ==
    /\ run.stage = "typingIndicators"
    /\ \E m \in run.snapshot.messages : m.senderId = run.userId
    /\ \E m \in run.snapshot.groupMembers : m.userId = run.userId
    /\ \E c \in run.snapshot.activeChats : c.userId = run.userId
    /\ \E t \in typingIndicators : t.userId = run.userId
    /\ \A m \in messages : m.senderId # run.userId
    /\ \A m \in groupMembers : m.userId # run.userId
    /\ \A c \in activeChats : c.userId # run.userId
    /\ run.userId \in DOMAIN users

AfterOneInvocation(s, u) ==
    [users |-> [v \in DOMAIN s.users \ {u} |-> s.users[v]],
     messages |-> {m \in s.messages : m.senderId # u},
     groupMembers |-> {m \in s.groupMembers : m.userId # u},
     groups |-> [g \in DOMAIN s.groups |->
                    IF \E m \in s.groupMembers : m.userId = u /\ m.groupId = g
                    THEN IF s.groups[g] >= 1 THEN s.groups[g] - 1 ELSE 0
                    ELSE s.groups[g]],
     activeChats |-> {c \in s.activeChats : c.userId # u},
     typingIndicators |-> {t \in s.typingIndicators : t.userId # u}]

C16_SessionUnique ==
    \A u, v \in DOMAIN users :
        users[u].sessionId = users[v].sessionId => u = v

\* createUser has resumed the row of a session while another session's row
\* exists
C16_Witness ==
    /\ last.op = "createUser" /\ last.ok /\ ~last.flag
    /\ last.retId \in DOMAIN users
    /\ users[last.retId].sessionId = last.sessionId
    /\ Cardinality(DOMAIN users) = 2

\* no two online users rows have the same username
OnlineNamesUnique ==
    \A u, v \in DOMAIN users :
        (users[u].isOnline /\ users[v].isOnline
            /\ users[u].username = users[v].username) => u = v

\* C17 as stated: in every reachable state no two users rows with isOnline =
\* true have the same username.
C17_OnlineNamesUnique == OnlineNamesUnique

\* C17: a createUser that returns leaves no other online users row with the
\* username it was given, and two online rows come to share a username only
\* in an updateOnlineStatus(_, true) that returns.
C17_UniqueAtCreation ==
    [][/\ (last'.op = "createUser" /\ last'.ok) =>
              \A v \in DOMAIN users' \ {last'.retId} :
                  ~(users'[v].isOnline /\ users'[v].username = last'.username)
       /\ (OnlineNamesUnique /\ ~OnlineNamesUnique') =>
              (last'.op = "updateOnlineStatus" /\ last'.flag /\ last'.ok)]_vars

\* an updateOnlineStatus(_, true) has brought back online a row whose
\* username a row created in the meantime holds online
C17_Witness ==
    /\ last.op = "updateOnlineStatus" /\ last.ok /\ last.flag
    /\ \E v \in DOMAIN users \ {last.userId} :
          /\ users[v].isOnline /\ users[last.userId].isOnline
          /\ users[v].username = users[last.userId].username

\* C18: a _deleteUserAndData(U) job the idle sweep enqueued that runs when U
\* is no longer idle, a heartbeat having refreshed lastSeen in between, still
\* completes and deletes the users row of U and every row U owns.
C18_SweepDeletionUnconditional ==
    [][\A u \in DOMAIN users :
          (last'.op = "_deleteUserAndData" /\ last'.userId = u /\ ~Idle(u)) =>
              /\ last'.ok
              /\ u \notin DOMAIN users'
              /\ OwnedRows(u)' = {}]_vars

\* a job the sweep enqueued has deleted a user whose lastSeen a heartbeat had
\* refreshed to the present, together with its rows
C18_Witness ==
    /\ last.op = "_deleteUserAndData" /\ last.ok
    /\ last.found.lastSeen = now /\ now > 300000
    /\ last.found.messages >= 1 /\ last.found.typingIndicators >= 1
    /\ Purged(last.userId)

\* C19: a _deleteUserAndData(U) run changes nothing that U does not own: the
\* users rows of the others, the messages not sent by U, the membership,
\* active-chat and typing-indicator rows of the others and the memberCount of
\* every group U has no membership row in stay as they were, and no row is
\* added.
C19_Frame ==
    [][\A u \in UserIds :
          (last'.op = "_deleteUserAndData" /\ last'.userId = u) =>
              /\ \A v \in DOMAIN users \ {u} :
                    v \in DOMAIN users' /\ users'[v] = users[v]
              /\ DOMAIN users' \subseteq DOMAIN users
              /\ {m \in messages : m.senderId # u} \subseteq messages'
              /\ {m \in groupMembers : m.userId # u} \subseteq groupMembers'
              /\ {c \in activeChats : c.userId # u} \subseteq activeChats'
              /\ {t \in typingIndicators : t.userId # u} \subseteq typingIndicators'
              /\ messages' \subseteq messages
              /\ groupMembers' \subseteq groupMembers
              /\ activeChats' \subseteq activeChats
              /\ typingIndicators' \subseteq typingIndicators
              /\ \A g \in DOMAIN groups :
                    (~\E m \in groupMembers : m.userId = u /\ m.groupId = g) =>
                        groups'[g] = groups[g]]_vars

\* a completed run that deleted rows of U, who was in no group, beside
\* another user who has a row in every table and is a counted group member
C19_Witness ==
    /\ last.op = "_deleteUserAndData" /\ last.ok
    /\ last.found.messages >= 1 /\ last.found.activeChats >= 1
    /\ last.found.groups = {}
    /\ \E v \in DOMAIN users :
          /\ \E m \in messages : m.senderId = v
          /\ \E m \in groupMembers : m.userId = v /\ groups[m.groupId] >= 1
          /\ \E c \in activeChats : c.userId = v
          /\ \E t \in typingIndicators : t.userId = v

\* C20: every typing-indicator update ChatArea sends with isTyping = true for
\* a chat is eventually followed by one with isTyping = false for that chat.
C20_TypingEventuallyCleared ==
    \A c \in SelectableChats :
        (ui.sent[c] = "typing") ~> (ui.sent[c] = "stopped")
====
